---- MODULE Spec2Model ----
(***************************************************************************)
(* A model of IOManager (src/src/lib/iomgr.cpp): the start/stop state      *)
(* machine, the reactor registration counters, and the message layer       *)
(* (send_msg / multicast_msg) with its allocation and free discipline.     *)
(*                                                                         *)
(* Worker slots are numbered 1..n here; the source numbers them 0..n-1.    *)
(* A reactor is named by a number: reactor i (i <= MaxThreads) is the      *)
(* worker reactor run by the OS thread of worker slot i, the reactors      *)
(* above MaxThreads are user reactors.  An io_thread is a pair             *)
(* <<reactor, thread_addr>>.                                               *)
(***************************************************************************)
EXTENDS Integers, Sequences, FiniteSets, TLC

\* ------------------------------------------------------------------ bounds
MaxThreads == 2
NumUsers == 1
MaxIoThreads == 2
MaxOps == 1
MaxMsgs == 4
MaxLiveThreads == 3
MaxCalls == 1
NumRegThreads == 2

\* min_cnt starts at INTMAX_MAX (2^63-1 in the source; the largest value the
\* checker's integers hold here; outstanding_ops stays within 0..MaxOps).
INTMAX_MAX == 2147483647

NULL == 0
Workers == 1..MaxThreads
Users == (MaxThreads + 1)..(MaxThreads + NumUsers)
RIds == 1..(MaxThreads + NumUsers)
IoThreads == RIds \X (1..MaxIoThreads)
NoThread == <<0, 0>>
MsgIds == 1..MaxMsgs
RegThreads == 1..NumRegThreads

thread_regex == {"all_io", "all_worker", "all_user", "least_busy_io",
                 "least_busy_worker", "least_busy_user", "random_worker"}

iomgr_state == {"uninitialized", "interface_init", "reactor_init", "sys_init",
                "running", "stopping", "stopped"}

VARIABLES
    m_state,                     \* IOManager lifecycle state
    m_is_spdk,
    m_is_spdk_inited_externally,
    m_yet_to_start_nreactors,
    m_yet_to_stop_nreactors,
    m_worker_reactors,           \* sequence of [first: OS thread handle state, second: reactor or NULL]
    m_iface_list,
    m_drive_ifaces,
    m_msg_handlers_count,
    m_msg_handlers,              \* the module table: the handler stored under each id (slot id + 1)
    m_msg_hdlrs_mtx,             \* the table's mutex: 0 when free, else the thread holding it
    m_internal_msg_module_id,
    m_global_user_timer,
    m_global_worker_timer,
    installed,                   \* m_reactors: the reactors present in the per-thread holder
    is_io,                       \* IOReactor::is_io_reactor()
    spdk,                        \* the reactor is an IOReactorSPDK (its io_threads hold an spdk_thread*)
    ops,                         \* per reactor, the outstanding_ops of each of its io_threads
    queue,                       \* per io_thread, the messages enqueued and not yet handled
    heap,                        \* the iomgr_msg allocations
    mem_errors,                  \* memory errors that happened: "double_free", "use_after_free"
    crashed,                     \* the process died on an out-of-range index or a null reactor
    call,                        \* the last send_msg / multicast_msg call of the application and its outcome
    pc,                          \* position of the thread that calls start() and stop()
    main,                        \* that thread's locals
    rpc,                         \* position of each reactor thread
    latch,                       \* the sync message's latch: responses still awaited
    started_cnt,                 \* on_io_thread_start calls, per interface and io_thread
    bdev_init,                   \* spdk_bdev_initialize: "none", "started" (callback pending), "done"
    reg,                         \* per application thread, its register_msg_module call in progress
    issued                       \* the registrations that returned, in order: handler and id returned

mgr_vars == <<m_state, m_is_spdk, m_is_spdk_inited_externally, m_yet_to_start_nreactors,
              m_yet_to_stop_nreactors, m_worker_reactors, m_iface_list, m_drive_ifaces,
              m_msg_handlers_count, m_internal_msg_module_id, m_global_user_timer,
              m_global_worker_timer, m_msg_handlers, m_msg_hdlrs_mtx, reg, issued>>
reg_vars == <<m_msg_handlers, m_msg_hdlrs_mtx, reg, issued>>
reactor_vars == <<installed, is_io, spdk, ops>>
msg_vars == <<queue, heap, mem_errors, crashed>>
proc_vars == <<pc, main, rpc, latch, started_cnt, bdev_init>>
vars == <<mgr_vars, reactor_vars, msg_vars, call, proc_vars>>

\* ---------------------------------------------------------------- messages
FreeSlot == [live |-> FALSE, type |-> "none", module_id |-> 0, dest |-> 0, cur |-> FALSE,
             sync |-> FALSE, fn |-> "none", arg |-> "none"]

\* The message state an operation works on.
MsgState == [heap |-> heap, queue |-> queue, errs |-> mem_errors]

NewId(h) == CHOOSE i \in MsgIds : ~h[i].live /\ \A j \in 1..(i - 1) : h[j].live
FreeCount(h) == Cardinality({i \in MsgIds : ~h[i].live})

\* iomgr_msg::create: a fresh allocation (its id is NewId of the heap before).
\* body: whether it is a sync message, and the closure a RUN_METHOD carries.
iomgr_msg_create(S, type, module, body) ==
    [S EXCEPT !.heap[NewId(S.heap)] =
        [live |-> TRUE, type |-> type, module_id |-> module, dest |-> 0, cur |-> body.cur,
         sync |-> body.sync, fn |-> body.fn, arg |-> body.arg]]

Range(q) == {q[i] : i \in 1..Len(q)}

\* The allocations some queue still holds.
Enqueued(S) == UNION {Range(S.queue[thr]) : thr \in IoThreads}

\* Accounting at the end of an operation: a live allocation that no queue holds
\* has no owner left and is never freed; its slot is taken back.
Collect(S) ==
    LET lost == {i \in MsgIds : S.heap[i].live /\ i \notin Enqueued(S)} IN
    [S EXCEPT !.heap = [i \in MsgIds |-> IF i \in lost THEN FreeSlot ELSE S.heap[i]],
              !.errs = IF lost # {} THEN @ \cup {"leak"} ELSE @]

\* iomgr_msg::clone: an independent allocation with the same contents.
iomgr_msg_clone(S, m) == [S EXCEPT !.heap[NewId(S.heap)] = [S.heap[m] EXCEPT !.live = TRUE]]

\* iomgr_msg::free: freeing an allocation that is not live is a double free.
iomgr_msg_free(S, m) ==
    IF S.heap[m].live THEN [S EXCEPT !.heap[m] = FreeSlot]
    ELSE [S EXCEPT !.errs = @ \cup {"double_free"}]

\* IOReactor::deliver_msg(taddr, msg): true iff the message was enqueued; ok is
\* the reactor's answer.  thr is the io_thread whose queue receives it.
deliver_msg(S, thr, taddr, m, ok) ==
    IF ok THEN [S EXCEPT !.queue[thr] = Append(@, m), !.heap[m].dest = taddr] ELSE S

is_worker(r) == r \in Workers

match_regex(r, rid) ==
    IF r \in {"all_io", "least_busy_io"} THEN TRUE
    ELSE IF is_worker(rid)
         THEN r \in {"all_worker", "least_busy_worker", "random_worker"}
         ELSE r \in {"all_user", "least_busy_user"}

\* all_reactors: the reactor of every thread that holds one, in thread order.
all_reactors == SelectSeq([i \in RIds |-> i], LAMBDA i : installed[i])

\* _pick_reactors: the reactors (or NULL) the callback is called with, in order.
_pick_reactors(r) ==
    IF r \in {"all_worker", "least_busy_worker"}
    THEN [i \in 1..Len(m_worker_reactors) |-> m_worker_reactors[i].second]
    ELSE all_reactors

\* reactor->io_threads(), in order.
io_threads(rid) == [a \in 1..Len(ops[rid]) |-> <<rid, a>>]

RECURSIVE MatchingThreads(_, _, _)
\* The io_threads the callback of multicast_msg reaches, in scan order: those
\* of every picked reactor that is non-null and an io reactor, that match r.
MatchingThreads(r, picked, i) ==
    IF i > Len(picked) THEN <<>>
    ELSE LET rid == picked[i] IN
         (IF rid # NULL /\ is_io[rid] /\ match_regex(r, rid) THEN io_threads(rid) ELSE <<>>)
            \o MatchingThreads(r, picked, i + 1)

\* The dense thread_idx of an io_thread (IOManager::make_io_thread).
thread_idx(thr) == (thr[1] - 1) * MaxIoThreads + (thr[2] - 1)

\* thread_impl holds an spdk_thread* (an io_thread of a live polled reactor).
holds_spdk_thread(thr) == spdk[thr[1]] /\ thr[2] <= Len(ops[thr[1]])

\* send_msg that reports success whatever the reactor answered.
send_msg_always_true(S, to_thread, m, acc) ==
    LET S1 == [S EXCEPT !.heap[m].dest = to_thread[2]]
        rid == to_thread[1]
        ok == IF holds_spdk_thread(to_thread) THEN TRUE
              ELSE installed[rid] /\ is_io[rid] /\ to_thread \in acc
    IN  [S |-> deliver_msg(S1, to_thread, to_thread[2], m, ok), ret |-> TRUE]

\* IOManager::send_msg.  acc: the io_threads whose reactor's deliver_msg
\* answers true.  Result: the message state and the returned bool.
send_msg(S, to_thread, m, acc) ==
    LET S1 == [S EXCEPT !.heap[m].dest = to_thread[2]]
        rid == to_thread[1]
        ret == IF holds_spdk_thread(to_thread)
               THEN TRUE      \* IOReactorSPDK::deliver_msg_direct
               ELSE installed[rid] /\ is_io[rid] /\ to_thread \in acc
        S2 == deliver_msg(S1, to_thread, to_thread[2], m, ret)
    IN  [S |-> IF ~ret THEN iomgr_msg_free(S2, m) ELSE S2, ret |-> ret]

RECURSIVE ScanMinLast(_, _, _)
\* The least-busy scan with <= in place of <: a tie goes to the last scanned.
ScanMinLast(thrs, i, best) ==
    IF i > Len(thrs) THEN best
    ELSE LET thr == thrs[i]
             cnt == ops[thr[1]][thr[2]]
         IN  ScanMinLast(thrs, i + 1,
                         IF cnt <= best.min_cnt THEN [min_cnt |-> cnt, min_thread |-> thr] ELSE best)

RECURSIVE ScanMin(_, _, _)
\* The least-busy scan of multicast_msg: the first io_thread, in scan order,
\* whose outstanding_ops is below every earlier one's.
ScanMin(thrs, i, best) ==
    IF i > Len(thrs) THEN best
    ELSE LET thr == thrs[i]
             cnt == ops[thr[1]][thr[2]]
         IN  ScanMin(thrs, i + 1,
                     IF cnt < best.min_cnt THEN [min_cnt |-> cnt, min_thread |-> thr] ELSE best)

min_thread(thrs) == ScanMin(thrs, 1, [min_cnt |-> INTMAX_MAX, min_thread |-> NoThread]).min_thread

RECURSIVE CloneToAll(_, _, _, _, _)
\* The clone branch of multicast_msg: one clone per matching io_thread, handed
\* to deliver_msg, whose answer is not looked at.
CloneToAll(S, thrs, i, m, acc) ==
    IF i > Len(thrs) THEN S
    ELSE LET new_msg == NewId(S.heap)
             S1 == iomgr_msg_clone(S, m)
         IN  CloneToAll(deliver_msg(S1, thrs[i], thrs[i][2], new_msg, thrs[i] \in acc),
                        thrs, i + 1, m, acc)

\* The branch of multicast_msg taken for r = random_worker.  slot is the
\* randint drawn, sel the io_thread select_thread() returns.  Indexing an
\* empty vector or calling through a null reactor kills the process.
multicast_random(S, m, acc, slot, sel) ==
    IF Len(m_worker_reactors) = 0 \/ m_worker_reactors[slot].second = NULL
       \/ Len(ops[m_worker_reactors[slot].second]) = 0
    THEN [S |-> S, sent_to |-> 0, cloned |-> FALSE, target |-> NoThread, crash |-> TRUE]
    ELSE LET thr == <<m_worker_reactors[slot].second, sel>>
             ok == thr \in acc
         IN  [S |-> deliver_msg(S, thr, thread_idx(thr), m, ok),
              sent_to |-> IF ok THEN 1 ELSE 0, cloned |-> FALSE, target |-> thr, crash |-> FALSE]

\* The branch of multicast_msg taken for every other r (the _pick_reactors callback).
multicast_pick(S, r, m, acc) ==
    LET thrs == MatchingThreads(r, _pick_reactors(r), 1) IN
    IF r \in {"least_busy_worker", "least_busy_user"}
    THEN LET tgt == min_thread(thrs) IN
         IF tgt = NoThread
         THEN [S |-> S, sent_to |-> 0, cloned |-> FALSE, target |-> NoThread, crash |-> FALSE]
         ELSE LET sent == send_msg(S, tgt, m, acc) IN
              [S |-> sent.S, sent_to |-> IF sent.ret THEN 1 ELSE 0, cloned |-> FALSE,
               target |-> tgt, crash |-> FALSE]
    ELSE [S |-> CloneToAll(S, thrs, 1, m, acc), sent_to |-> Len(thrs), cloned |-> Len(thrs) > 0,
          target |-> NoThread, crash |-> FALSE]

\* IOManager::multicast_msg.  Result: the message state, the returned count,
\* the io_thread a single delivery was aimed at, and whether the process died.
multicast_msg(S, r, m, acc, slot, sel) ==
    LET b == IF r = "random_worker" THEN multicast_random(S, m, acc, slot, sel)
             ELSE multicast_pick(S, r, m, acc)
    IN  IF b.crash THEN [S |-> S, ret |-> 0, target |-> NoThread, crash |-> TRUE]
        ELSE [S |-> IF b.cloned \/ b.sent_to = 0 THEN iomgr_msg_free(b.S, m) ELSE b.S,
              ret |-> b.sent_to, target |-> b.target, crash |-> FALSE]

\* How many free allocations multicast_msg(r, ..) needs besides the original.
ClonesNeeded(r) ==
    IF r \in {"random_worker", "least_busy_worker", "least_busy_user"} THEN 0
    ELSE Len(MatchingThreads(r, _pick_reactors(r), 1))

\* The io_threads that exist.
LiveThreads == {thr \in IoThreads : installed[thr[1]] /\ is_io[thr[1]] /\ thr[2] <= Len(ops[thr[1]])}

\* The io_threads on whose queue an operation enqueued something.
Delivered(S0, S1) == {thr \in IoThreads : Len(S1.queue[thr]) > Len(S0.queue[thr])}

\* ------------------------------------------------- the reactor's message loop
NoCall == [n |-> 0, op |-> "none", r |-> "none", to |-> NoThread, msg |-> 0, module |-> 0,
           ok |-> FALSE,
           ret |-> 0, target |-> NoThread, delivered |-> {}, handled_on |-> <<>>]

\* The body of a message the application creates for its own module.
AppBody == [cur |-> TRUE, sync |-> FALSE, fn |-> "none", arg |-> "none"]

\* A new application call: the allocations of earlier calls are no longer its own.
Uncur(h) == [i \in MsgIds |-> [h[i] EXCEPT !.cur = FALSE]]

\* The handlers: none, the internal one start() registers, and the k-th one
\* application thread t registers.
NoHandler == <<-1, 0>>
InternalHandler == <<0, 0>>
AppHandler(t, k) == <<t, k>>

\* IOManager::get_msg_module: the handler registered under id.
get_msg_module(id) == m_msg_handlers[id + 1]

\* ----------------------------------------------- the application's message calls
\* The application creates a message and calls send_msg(to_thread, msg).  The
\* io_thread handle it passes may be stale unless it holds an spdk_thread*.
AppSendMsg(to_thread, module, acc) ==
    /\ ~crashed /\ pc = "idle" /\ m_state = "running" /\ call.n < MaxCalls
    /\ spdk[to_thread[1]] => to_thread \in LiveThreads
    /\ FreeCount(heap) >= 1
    /\ LET m == NewId(heap)
           S0 == iomgr_msg_create([MsgState EXCEPT !.heap = Uncur(heap)], "CUSTOM", module, AppBody)
           res == send_msg(S0, to_thread, m, acc)
           S9 == Collect(res.S)
       IN  /\ heap' = S9.heap
           /\ queue' = S9.queue
           /\ mem_errors' = S9.errs
           /\ call' = [n |-> call.n + 1, op |-> "send_msg", r |-> "none", to |-> to_thread, msg |-> m,
                       module |-> module,
                       ok |-> res.ret, ret |-> IF res.ret THEN 1 ELSE 0, target |-> to_thread,
                       delivered |-> Delivered(S0, res.S), handled_on |-> <<>>]
    /\ UNCHANGED <<mgr_vars, reactor_vars, crashed, proc_vars>>

\* What randint and select_thread() can return: a slot of the vector and an
\* io_thread of that slot's reactor (1 and 1 where the value is not used).
RandomDraw(r, slot, sel) ==
    IF r = "random_worker" /\ Len(m_worker_reactors) > 0
    THEN /\ slot <= Len(m_worker_reactors)
         /\ LET reactor == m_worker_reactors[slot].second IN
            IF reactor # NULL /\ Len(ops[reactor]) > 0 THEN sel <= Len(ops[reactor]) ELSE sel = 1
    ELSE slot = 1 /\ sel = 1

\* The application creates a message and calls multicast_msg(r, msg).
AppMulticastMsg(r, module, acc, slot, sel) ==
    /\ ~crashed /\ pc = "idle" /\ m_state = "running" /\ call.n < MaxCalls
    /\ RandomDraw(r, slot, sel)
    /\ FreeCount(heap) >= 1 + ClonesNeeded(r)
    /\ LET m == NewId(heap)
           S0 == iomgr_msg_create([MsgState EXCEPT !.heap = Uncur(heap)], "CUSTOM", module, AppBody)
           res == multicast_msg(S0, r, m, acc, slot, sel)
           S9 == Collect(res.S)
       IN  /\ heap' = S9.heap
           /\ queue' = S9.queue
           /\ mem_errors' = S9.errs
           /\ crashed' = res.crash
           /\ call' = [n |-> call.n + 1, op |-> "multicast_msg", r |-> r, to |-> NoThread, msg |-> m,
                       module |-> module,
                       ok |-> res.ret > 0, ret |-> res.ret, target |-> res.target,
                       delivered |-> Delivered(S0, res.S), handled_on |-> <<>>]
    /\ UNCHANGED <<mgr_vars, reactor_vars, proc_vars>>

\* The body of a sync message of the application: it carries a latch.
SyncBody == [cur |-> TRUE, sync |-> TRUE, fn |-> "none", arg |-> "none"]

\* IOManager::send_msg_and_wait: send_msg of the sync message's base message;
\* the caller goes on to smsg.wait() iff send_msg returned true.
AppSendMsgAndWait(to_thread, module, acc) ==
    /\ ~crashed /\ pc = "idle" /\ m_state = "running" /\ call.n < MaxCalls
    /\ spdk[to_thread[1]] => to_thread \in LiveThreads
    /\ FreeCount(heap) >= 1
    /\ LET m == NewId(heap)
           S0 == iomgr_msg_create([MsgState EXCEPT !.heap = Uncur(heap)], "CUSTOM", module, SyncBody)
           sent == send_msg(S0, to_thread, m, acc)
           S9 == Collect(sent.S)
       IN  /\ heap' = S9.heap
           /\ queue' = S9.queue
           /\ mem_errors' = S9.errs
           /\ latch' = IF sent.ret THEN 1 ELSE 0
           /\ pc' = IF sent.ret THEN "msg_wait" ELSE "idle"
           /\ call' = [n |-> call.n + 1, op |-> "send_msg_and_wait", r |-> "none", to |-> to_thread,
                       msg |-> m, module |-> module,
                       ok |-> sent.ret, ret |-> IF sent.ret THEN 1 ELSE 0, target |-> to_thread,
                       delivered |-> Delivered(S0, sent.S), handled_on |-> <<>>]
    /\ UNCHANGED <<mgr_vars, reactor_vars, crashed, main, rpc, started_cnt, bdev_init>>

\* IOManager::multicast_msg_and_wait: multicast_msg of the sync message's base
\* message; the caller goes on to smsg.wait() iff sent_to != 0, and the latch
\* opens after sent_to signals.
AppMulticastMsgAndWait(r, module, acc, slot, sel) ==
    /\ ~crashed /\ pc = "idle" /\ m_state = "running" /\ call.n < MaxCalls
    /\ RandomDraw(r, slot, sel)
    /\ FreeCount(heap) >= 1 + ClonesNeeded(r)
    /\ LET m == NewId(heap)
           S0 == iomgr_msg_create([MsgState EXCEPT !.heap = Uncur(heap)], "CUSTOM", module, SyncBody)
           res == multicast_msg(S0, r, m, acc, slot, sel)
           sent_to == res.ret
           S9 == Collect(res.S)
       IN  /\ heap' = S9.heap
           /\ queue' = S9.queue
           /\ mem_errors' = S9.errs
           /\ crashed' = res.crash
           /\ latch' = sent_to
           /\ pc' = IF sent_to # 0 THEN "msg_wait" ELSE "idle"
           /\ call' = [n |-> call.n + 1, op |-> "multicast_msg_and_wait", r |-> r, to |-> NoThread,
                       msg |-> m, module |-> module,
                       ok |-> sent_to > 0, ret |-> sent_to, target |-> res.target,
                       delivered |-> Delivered(S0, res.S), handled_on |-> <<>>]
    /\ UNCHANGED <<mgr_vars, reactor_vars, main, rpc, started_cnt, bdev_init>>

\* smsg.wait() returns: every awaited signal has arrived, the *_and_wait call
\* returns to the application.
SyncWaitReturn ==
    /\ ~crashed /\ pc = "msg_wait" /\ latch = 0
    /\ pc' = "idle"
    /\ UNCHANGED <<mgr_vars, reactor_vars, msg_vars, call, main, rpc, latch, started_cnt,
                   bdev_init>>

\* An io_thread's outstanding_ops moves as I/O is submitted and completes.
OpsChange(thr, d) ==
    /\ ~crashed /\ thr \in LiveThreads
    /\ ops[thr[1]][thr[2]] + d \in 0..MaxOps
    /\ ops' = [ops EXCEPT ![thr[1]][thr[2]] = @ + d]
    /\ UNCHANGED <<mgr_vars, installed, is_io, spdk, msg_vars, call, proc_vars>>

\* ------------------------------------------------------------ reactor threads
Ifaces == {"generic", "aio_drive", "spdk_drive"}

\* add_interface that does not take the list's write lock.
no_wlock == FALSE

\* The interface list's write lock is held across add_interface.
wlock_held == pc = "add_interface_wait"

\* IOManager::_run_io_loop, run by a spawned worker thread or by an application
\* thread that makes itself a user reactor: the thread creates its reactor in
\* the per-thread holder; from here all_reactors sees it.  A worker's reactor is
\* of the kind start() passed to its thread (SpawnThread); an application
\* thread asks for an epoll reactor here.
RunIoLoop(r) ==
    /\ ~crashed /\ rpc[r] = (IF is_worker(r) THEN "spawned" ELSE "none")
    /\ installed' = [installed EXCEPT ![r] = TRUE]
    /\ rpc' = [rpc EXCEPT ![r] = "created"]
    /\ UNCHANGED <<mgr_vars, is_io, spdk, ops, msg_vars, call, pc, main, latch, started_cnt,
                   bdev_init>>

\* IOManager::reactor_started.  A worker stores itself into its slot; when the
\* slot is not yet part of the vector the store goes to reserved storage that
\* push_back later constructs over (the store is lost), or faults (torn).
reactor_started(r, torn) ==
    /\ m_yet_to_stop_nreactors' = m_yet_to_stop_nreactors + 1
    /\ IF is_worker(r)
       THEN /\ m_worker_reactors' = IF r <= Len(m_worker_reactors)
                                    THEN [m_worker_reactors EXCEPT ![r].second = r]
                                    ELSE m_worker_reactors
            /\ crashed' = (r > Len(m_worker_reactors) /\ torn)
            /\ m_yet_to_start_nreactors' = m_yet_to_start_nreactors - 1
            /\ m_state' = IF m_yet_to_start_nreactors - 1 = 0 THEN "sys_init" ELSE m_state
       ELSE UNCHANGED <<m_worker_reactors, crashed, m_yet_to_start_nreactors, m_state>>

\* The reactor becomes an io reactor with its first io_thread, runs the
\* thread-start callback of every interface in the list (as a reader of the
\* list) and registers with the manager.
ReactorStart(r, torn) ==
    /\ ~crashed /\ rpc[r] = "created" /\ ~wlock_held
    /\ torn => (is_worker(r) /\ r > Len(m_worker_reactors))
    /\ is_io' = [is_io EXCEPT ![r] = TRUE]
    /\ ops' = [ops EXCEPT ![r] = <<0>>]
    /\ started_cnt' = [f \in Ifaces |-> [started_cnt[f] EXCEPT
                            ![<<r, 1>>] = IF f \in Range(m_iface_list) THEN 1 ELSE 0]]
    /\ reactor_started(r, torn)
    /\ rpc' = [rpc EXCEPT ![r] = "loop"]
    /\ UNCHANGED <<m_is_spdk, m_is_spdk_inited_externally, m_iface_list, m_drive_ifaces,
                   m_msg_handlers_count, reg_vars, m_internal_msg_module_id, m_global_user_timer,
                   m_global_worker_timer, installed, spdk, queue, heap, mem_errors, call,
                   pc, main, latch, bdev_init>>

\* IOManager::reactor_stopped.
reactor_stopped ==
    /\ m_yet_to_stop_nreactors' = m_yet_to_stop_nreactors - 1
    /\ m_state' = IF m_yet_to_stop_nreactors - 1 = 0 THEN "stopped" ELSE m_state

\* The loop of an io reactor takes the next message of one of its io_threads,
\* calls the handler registered for its module, frees the message and, for a
\* sync message, signals the latch.  RELINQUISH_IO_THREAD on the reactor's
\* last io_thread ends the loop.
ReactorHandleMsg(thr) ==
    LET r == thr[1]
        m == Head(queue[thr])
        rec == heap[m]
        last == rec.live /\ rec.type = "RELINQUISH_IO_THREAD" /\ Len(ops[r]) = 1
    IN
    /\ ~crashed /\ rpc[r] = "loop" /\ thr \in LiveThreads /\ queue[thr] # <<>>
    /\ queue' = [queue EXCEPT ![thr] = Tail(@)]
    /\ heap' = IF rec.live THEN [heap EXCEPT ![m] = FreeSlot] ELSE heap
    /\ mem_errors' = IF rec.live THEN mem_errors ELSE mem_errors \cup {"use_after_free"}
    /\ latch' = IF rec.live /\ rec.sync THEN latch - 1 ELSE latch
    /\ call' = IF rec.live /\ rec.cur
               THEN [call EXCEPT !.handled_on = Append(@, <<thr, get_msg_module(rec.module_id)>>)]
               ELSE call
    /\ started_cnt' = IF rec.live /\ rec.fn = "on_io_thread_start"
                      THEN [started_cnt EXCEPT ![rec.arg][thr] = IF @ < 2 THEN @ + 1 ELSE @]
                      ELSE started_cnt
    /\ bdev_init' = IF rec.live /\ rec.fn = "spdk_bdev_initialize" THEN "started" ELSE bdev_init
    /\ is_io' = IF last THEN [is_io EXCEPT ![r] = FALSE] ELSE is_io
    /\ ops' = IF last THEN [ops EXCEPT ![r] = <<>>] ELSE ops
    /\ rpc' = IF last THEN [rpc EXCEPT ![r] = "exiting"] ELSE rpc
    /\ UNCHANGED <<mgr_vars, installed, spdk, crashed, pc, main>>

\* Out of its loop, the reactor tells the manager; a user reactor's thread is
\* then a plain application thread again.
ReactorStopped(r) ==
    /\ ~crashed /\ rpc[r] = "exiting"
    /\ reactor_stopped
    /\ rpc' = [rpc EXCEPT ![r] = IF is_worker(r) THEN "returning" ELSE "none"]
    /\ installed' = [installed EXCEPT ![r] = is_worker(r)]
    /\ UNCHANGED <<m_is_spdk, m_is_spdk_inited_externally, m_yet_to_start_nreactors,
                   m_worker_reactors, m_iface_list, m_drive_ifaces, m_msg_handlers_count, reg_vars,
                   m_internal_msg_module_id, m_global_user_timer, m_global_worker_timer,
                   is_io, spdk, ops, msg_vars, call, pc, main, latch, started_cnt, bdev_init>>

\* The thread function of a worker returns: its OS thread can now be joined.
ThreadExit(r) ==
    /\ ~crashed /\ rpc[r] = "returning"
    /\ installed' = [installed EXCEPT ![r] = FALSE]
    /\ rpc' = [rpc EXCEPT ![r] = "done"]
    /\ UNCHANGED <<mgr_vars, is_io, spdk, ops, msg_vars, call, pc, main, latch, started_cnt,
                   bdev_init>>

\* IOManager::stop_io_loop on a user reactor: it leaves its loop on its own;
\* what its queues still hold is dropped with them.
UserDetach(u) ==
    /\ ~crashed /\ u \in Users /\ rpc[u] = "loop"
    /\ LET S == Collect([MsgState EXCEPT !.queue = [thr \in IoThreads |->
                            IF thr[1] = u THEN <<>> ELSE queue[thr]]])
       IN  /\ queue' = S.queue
           /\ heap' = S.heap
           /\ mem_errors' = S.errs
    /\ is_io' = [is_io EXCEPT ![u] = FALSE]
    /\ ops' = [ops EXCEPT ![u] = <<>>]
    /\ started_cnt' = [f \in Ifaces |-> [thr \in IoThreads |->
                            IF thr[1] = u THEN 0 ELSE started_cnt[f][thr]]]
    /\ rpc' = [rpc EXCEPT ![u] = "exiting"]
    /\ UNCHANGED <<mgr_vars, installed, spdk, crashed, call, pc, main, latch, bdev_init>>

\* The completion callback of spdk_bdev_initialize.
BdevInitDone ==
    /\ ~crashed /\ bdev_init = "started"
    /\ m_state' = "running"
    /\ bdev_init' = "done"
    /\ UNCHANGED <<m_is_spdk, m_is_spdk_inited_externally, m_yet_to_start_nreactors,
                   m_yet_to_stop_nreactors, m_worker_reactors, m_iface_list, m_drive_ifaces,
                   m_msg_handlers_count, reg_vars, m_internal_msg_module_id, m_global_user_timer,
                   m_global_worker_timer, reactor_vars, msg_vars, call, pc, main, rpc, latch,
                   started_cnt>>

\* ------------------------------------------------- the thread calling start/stop
\* The capacity of the message module table (max_io_threads in the source).
MaxMsgModules == 2

\* The calls of start() and stop() that have returned so far, as far as
\* "start", "start;stop" and "start;stop;start" (or "start;stop;start_threw"
\* when the second start threw); any other course is "other".
AfterCall(hist, c) ==
    IF hist = "" /\ c = "start" THEN "start"
    ELSE IF hist = "start" /\ c = "stop" THEN "start;stop"
    ELSE IF hist = "start;stop" /\ c \in {"start", "start_threw"} THEN "start;stop;" \o c
    ELSE "other"

\* IOManager::register_msg_module: the table's next slot is taken.
register_msg_module(count) == [count |-> count + 1, id |-> (count + 1) - 1]

\* register_msg_module that does not take the mutex.
mtx_ignored == TRUE

\* std::unique_lock lk(m_msg_hdlrs_mtx) can be taken.
mtx_acquirable == m_msg_hdlrs_mtx = 0

\* An application thread calls register_msg_module(handler): it takes the mutex.
RegLock(t) ==
    /\ reg[t].pc = "idle" /\ mtx_acquirable
    /\ m_msg_handlers_count < MaxMsgModules
    /\ m_msg_hdlrs_mtx' = t
    /\ reg' = [reg EXCEPT ![t] = [pc |-> "locked", k |-> @.k + 1]]
    /\ UNCHANGED <<m_state, m_is_spdk, m_is_spdk_inited_externally, m_yet_to_start_nreactors,
                   m_yet_to_stop_nreactors, m_worker_reactors, m_iface_list, m_drive_ifaces,
                   m_msg_handlers_count, m_internal_msg_module_id, m_global_user_timer,
                   m_global_worker_timer, m_msg_handlers, issued, reactor_vars, msg_vars, call,
                   proc_vars>>

\* m_msg_handlers[m_msg_handlers_count++] = handler.
RegStore(t) ==
    /\ reg[t].pc = "locked"
    /\ m_msg_handlers' = [m_msg_handlers EXCEPT ![m_msg_handlers_count + 1] = AppHandler(t, reg[t].k)]
    /\ m_msg_handlers_count' = register_msg_module(m_msg_handlers_count).count
    /\ reg' = [reg EXCEPT ![t].pc = "stored"]
    /\ UNCHANGED <<m_state, m_is_spdk, m_is_spdk_inited_externally, m_yet_to_start_nreactors,
                   m_yet_to_stop_nreactors, m_worker_reactors, m_iface_list, m_drive_ifaces,
                   m_internal_msg_module_id, m_global_user_timer, m_global_worker_timer,
                   m_msg_hdlrs_mtx, issued, reactor_vars, msg_vars, call, proc_vars>>

\* return m_msg_handlers_count - 1; the mutex is released.
RegReturn(t) ==
    /\ reg[t].pc = "stored"
    /\ issued' = Append(issued, [handler |-> AppHandler(t, reg[t].k), id |-> m_msg_handlers_count - 1])
    /\ m_msg_hdlrs_mtx' = IF m_msg_hdlrs_mtx = t THEN 0 ELSE m_msg_hdlrs_mtx
    /\ reg' = [reg EXCEPT ![t].pc = "idle"]
    /\ UNCHANGED <<m_state, m_is_spdk, m_is_spdk_inited_externally, m_yet_to_start_nreactors,
                   m_yet_to_stop_nreactors, m_worker_reactors, m_iface_list, m_drive_ifaces,
                   m_msg_handlers_count, m_internal_msg_module_id, m_global_user_timer,
                   m_global_worker_timer, m_msg_handlers, reactor_vars, msg_vars, call, proc_vars>>

\* run_on(thread_regex, fn, wait_for_completion): fn travels as a RUN_METHOD
\* message of the internal module, a sync message when the caller waits.
run_on(S, fn, arg, wait) ==
    iomgr_msg_create(S, "RUN_METHOD", m_internal_msg_module_id,
                     [cur |-> FALSE, sync |-> wait, fn |-> fn, arg |-> arg])

\* start() that sets the state to interface_init before it calls start_spdk.
StartCallStateFirst(num_threads, is_spdk) ==
    /\ ~crashed /\ pc = "idle" /\ m_state # "running"
    /\ m_msg_handlers_count < MaxMsgModules /\ mtx_acquirable
    /\ m_msg_handlers' = [m_msg_handlers EXCEPT ![m_msg_handlers_count + 1] = InternalHandler]
    /\ issued' = Append(issued, [handler |-> InternalHandler,
                                 id |-> register_msg_module(m_msg_handlers_count).id])
    /\ UNCHANGED <<m_msg_hdlrs_mtx, reg>>
    /\ m_state' = "interface_init"
    /\ m_is_spdk' = is_spdk
    /\ m_yet_to_start_nreactors' = num_threads
    /\ m_msg_handlers_count' = register_msg_module(m_msg_handlers_count).count
    /\ m_internal_msg_module_id' = register_msg_module(m_msg_handlers_count).id
    /\ main' = [main EXCEPT !.num_threads = num_threads, !.is_spdk = is_spdk, !.i = 0,
                            !.iface = "none", !.thrown = FALSE, !.ret = "none", !.from = m_state]
    /\ pc' = IF is_spdk THEN "start_spdk" ELSE "interface_init"
    /\ UNCHANGED <<m_is_spdk_inited_externally, m_yet_to_stop_nreactors, m_worker_reactors,
                   m_iface_list, m_drive_ifaces, m_global_user_timer, m_global_worker_timer,
                   reactor_vars, msg_vars, call, rpc, latch, started_cnt, bdev_init>>

\* IOManager::start, up to the call of start_spdk.  The caller passes no
\* iface_adder: start() adds the drive interface itself.
StartCall(num_threads, is_spdk) ==
    /\ ~crashed /\ pc = "idle"
    /\ IF m_state = "running"
       THEN /\ main' = [main EXCEPT !.ret = "start_ignored", !.thrown = FALSE, !.from = m_state,
                                    !.hist = "other"]
            /\ UNCHANGED <<mgr_vars, pc>>
       ELSE LET r == register_msg_module(m_msg_handlers_count) IN
            /\ m_msg_handlers_count < MaxMsgModules /\ mtx_acquirable
            /\ m_msg_handlers' = [m_msg_handlers EXCEPT ![m_msg_handlers_count + 1] = InternalHandler]
            /\ issued' = Append(issued, [handler |-> InternalHandler, id |-> r.id])
            /\ UNCHANGED <<m_msg_hdlrs_mtx, reg>>
            /\ m_is_spdk' = is_spdk
            /\ m_yet_to_start_nreactors' = num_threads
            /\ m_msg_handlers_count' = r.count
            /\ m_internal_msg_module_id' = r.id
            /\ main' = [main EXCEPT !.num_threads = num_threads, !.is_spdk = is_spdk,
                                    !.i = 0, !.iface = "none", !.thrown = FALSE,
                                    !.ret = "none", !.from = m_state]
            /\ pc' = IF is_spdk THEN "start_spdk" ELSE "interface_init"
            /\ UNCHANGED <<m_state, m_is_spdk_inited_externally, m_yet_to_stop_nreactors,
                           m_worker_reactors, m_iface_list, m_drive_ifaces, m_global_user_timer,
                           m_global_worker_timer>>
    /\ UNCHANGED <<reactor_vars, msg_vars, call, rpc, latch, started_cnt, bdev_init>>

\* IOManager::start_spdk.  external: the environment was initialized by someone
\* else; env_ok, lib_ok: spdk_env_init and spdk_thread_lib_init returned 0.
StartSpdk(external, env_ok, lib_ok) ==
    /\ ~crashed /\ pc = "start_spdk"
    /\ m_is_spdk_inited_externally' = external
    /\ IF ~external /\ ~(env_ok /\ lib_ok)
       THEN /\ pc' = "idle"         \* std::runtime_error leaves start()
            /\ main' = [main EXCEPT !.thrown = TRUE, !.ret = "start_threw",
                                    !.hist = AfterCall(main.hist, "start_threw")]
       ELSE /\ pc' = "interface_init"
            /\ main' = main
    /\ UNCHANGED <<m_state, m_is_spdk, m_yet_to_start_nreactors, m_yet_to_stop_nreactors,
                   m_worker_reactors, m_iface_list, m_drive_ifaces, m_msg_handlers_count, reg_vars,
                   m_internal_msg_module_id, m_global_user_timer, m_global_worker_timer,
                   reactor_vars, msg_vars, call, rpc, latch, started_cnt, bdev_init>>

\* start(): set_state(interface_init); the generic interface is the first added.
StartInterfaceInit ==
    /\ ~crashed /\ pc = "interface_init"
    /\ m_state' = "interface_init"
    /\ main' = [main EXCEPT !.iface = "generic"]
    /\ pc' = "add_interface"
    /\ UNCHANGED <<m_is_spdk, m_is_spdk_inited_externally, m_yet_to_start_nreactors,
                   m_yet_to_stop_nreactors, m_worker_reactors, m_iface_list, m_drive_ifaces,
                   m_msg_handlers_count, reg_vars, m_internal_msg_module_id, m_global_user_timer,
                   m_global_worker_timer, reactor_vars, msg_vars, call, rpc, latch, started_cnt,
                   bdev_init>>

\* The drive interface start() adds after the generic one.
DriveIface == IF main.is_spdk THEN "spdk_drive" ELSE "aio_drive"

\* IOManager::add_interface, first half: under the list's write lock, every
\* io_thread is sent on_io_thread_start and the caller waits for the latch.
AddInterface(acc) ==
    /\ ~crashed /\ pc = "add_interface"
    /\ FreeCount(heap) >= 1 + ClonesNeeded("all_io")
    /\ LET m == NewId(heap)
           S0 == run_on(MsgState, "on_io_thread_start", main.iface, TRUE)
           res == multicast_msg(S0, "all_io", m, acc, 1, 1)
           S9 == Collect(res.S)
       IN  /\ heap' = S9.heap
           /\ queue' = S9.queue
           /\ mem_errors' = S9.errs
           /\ latch' = res.ret         \* multicast_msg_and_wait: waits if sent_to != 0
    /\ pc' = "add_interface_wait"
    /\ UNCHANGED <<mgr_vars, reactor_vars, crashed, call, main, rpc, started_cnt, bdev_init>>

\* IOManager::add_interface, second half (and add_drive_interface's own list):
\* the latch opened, the interface joins the list.  After the drive interface
\* start() goes on to set_state(reactor_init).
AddInterfaceDone ==
    /\ ~crashed /\ pc = "add_interface_wait" /\ latch = 0
    /\ m_iface_list' = Append(m_iface_list, main.iface)
    /\ IF main.iface = "generic"
       THEN /\ main' = [main EXCEPT !.iface = DriveIface]
            /\ pc' = "add_interface"
            /\ UNCHANGED <<m_drive_ifaces, m_state>>
       ELSE /\ m_drive_ifaces' = Append(m_drive_ifaces, main.iface)
            /\ m_state' = "reactor_init"
            /\ main' = main
            /\ pc' = IF main.num_threads = 0 THEN "wait_sys_init" ELSE "spawn"
    /\ UNCHANGED <<m_is_spdk, m_is_spdk_inited_externally, m_yet_to_start_nreactors,
                   m_yet_to_stop_nreactors, m_worker_reactors, m_msg_handlers_count, reg_vars,
                   m_internal_msg_module_id, m_global_user_timer, m_global_worker_timer,
                   reactor_vars, msg_vars, call, rpc, latch, started_cnt, bdev_init>>

\* start(): sisl::thread_factory creates the OS thread of the next worker slot;
\* the thread runs from here on.
SpawnThread ==
    /\ ~crashed /\ pc = "spawn"
    /\ rpc' = [rpc EXCEPT ![main.i + 1] = "spawned"]
    /\ spdk' = [spdk EXCEPT ![main.i + 1] = m_is_spdk]
    /\ pc' = "push_back"
    /\ UNCHANGED <<mgr_vars, installed, is_io, ops, msg_vars, call, main, latch, started_cnt,
                   bdev_init>>

\* start(): m_worker_reactors.push_back(reactor_info_t(thread, nullptr)).
PushBack ==
    /\ ~crashed /\ pc = "push_back"
    /\ m_worker_reactors' = Append(m_worker_reactors, [first |-> main.i + 1, second |-> NULL])
    /\ main' = [main EXCEPT !.i = @ + 1]
    /\ pc' = IF main.i + 1 < main.num_threads THEN "spawn" ELSE "wait_sys_init"
    /\ UNCHANGED <<m_state, m_is_spdk, m_is_spdk_inited_externally, m_yet_to_start_nreactors,
                   m_yet_to_stop_nreactors, m_iface_list, m_drive_ifaces, m_msg_handlers_count, reg_vars,
                   m_internal_msg_module_id, m_global_user_timer, m_global_worker_timer,
                   reactor_vars, msg_vars, call, rpc, latch, started_cnt, bdev_init>>

\* start() past wait_for_state(sys_init): the global timers, then either the
\* bdev subsystem is initialized on the least busy worker or the state is set
\* to running.
StartSysInit(acc) ==
    /\ ~crashed /\ pc = "wait_sys_init" /\ m_state = "sys_init"
    /\ m_global_user_timer' = "timer_epoll"
    /\ m_global_worker_timer' = IF main.is_spdk THEN "timer_spdk" ELSE "timer_epoll"
    /\ IF main.is_spdk /\ ~m_is_spdk_inited_externally
       THEN /\ FreeCount(heap) >= 1
            /\ LET m == NewId(heap)
                   S0 == run_on(MsgState, "spdk_bdev_initialize", "none", FALSE)
                   res == multicast_msg(S0, "least_busy_worker", m, acc, 1, 1)
                   S9 == Collect(res.S)
               IN  /\ heap' = S9.heap
                   /\ queue' = S9.queue
                   /\ mem_errors' = S9.errs
            /\ bdev_init' = "none"
            /\ pc' = "wait_running"
            /\ UNCHANGED m_state
       ELSE /\ m_state' = "running"
            /\ pc' = "notify"
            /\ UNCHANGED <<heap, queue, mem_errors, bdev_init>>
    /\ UNCHANGED <<m_is_spdk, m_is_spdk_inited_externally, m_yet_to_start_nreactors,
                   m_yet_to_stop_nreactors, m_worker_reactors, m_iface_list, m_drive_ifaces,
                   m_msg_handlers_count, reg_vars, m_internal_msg_module_id, reactor_vars, crashed, call,
                   main, rpc, latch, started_cnt>>

\* start() past wait_for_state(running).
StartWaitRunning ==
    /\ ~crashed /\ pc = "wait_running" /\ m_state = "running"
    /\ pc' = "notify"
    /\ UNCHANGED <<mgr_vars, reactor_vars, msg_vars, call, main, rpc, latch, started_cnt,
                   bdev_init>>

\* start(): every io_thread is told to make its thread-started callback; start returns.
StartNotify(acc) ==
    /\ ~crashed /\ pc = "notify"
    /\ FreeCount(heap) >= 1 + ClonesNeeded("all_io")
    /\ LET m == NewId(heap)
           S0 == run_on(MsgState, "notify_thread_state", "none", FALSE)
           res == multicast_msg(S0, "all_io", m, acc, 1, 1)
           S9 == Collect(res.S)
       IN  /\ heap' = S9.heap
           /\ queue' = S9.queue
           /\ mem_errors' = S9.errs
    /\ pc' = "idle"
    /\ main' = [main EXCEPT !.ret = "start", !.hist = AfterCall(main.hist, "start")]
    /\ UNCHANGED <<mgr_vars, reactor_vars, crashed, call, rpc, latch, started_cnt, bdev_init>>

\* IOManager::stop: set_state(stopping).
StopCall ==
    /\ ~crashed /\ pc = "idle"
    /\ m_state' = "stopping"
    /\ main' = [main EXCEPT !.ret = "none", !.thrown = FALSE, !.from = m_state]
    /\ pc' = "stop_increment"
    /\ UNCHANGED <<m_is_spdk, m_is_spdk_inited_externally, m_yet_to_start_nreactors,
                   m_yet_to_stop_nreactors, m_worker_reactors, m_iface_list, m_drive_ifaces,
                   m_msg_handlers_count, reg_vars, m_internal_msg_module_id, m_global_user_timer,
                   m_global_worker_timer, reactor_vars, msg_vars, call, rpc, latch, started_cnt,
                   bdev_init>>

\* stop(): m_yet_to_stop_nreactors.increment().
StopIncrement ==
    /\ ~crashed /\ pc = "stop_increment"
    /\ m_yet_to_stop_nreactors' = m_yet_to_stop_nreactors + 1
    /\ pc' = "stop_multicast"
    /\ UNCHANGED <<m_state, m_is_spdk, m_is_spdk_inited_externally, m_yet_to_start_nreactors,
                   m_worker_reactors, m_iface_list, m_drive_ifaces, m_msg_handlers_count, reg_vars,
                   m_internal_msg_module_id, m_global_user_timer, m_global_worker_timer,
                   reactor_vars, msg_vars, call, main, rpc, latch, started_cnt, bdev_init>>

\* stop(): the global timers are destroyed and RELINQUISH_IO_THREAD is multicast to all_io.
StopMulticast(acc) ==
    /\ ~crashed /\ pc = "stop_multicast"
    /\ FreeCount(heap) >= 1 + ClonesNeeded("all_io")
    /\ m_global_user_timer' = "null"
    /\ m_global_worker_timer' = "null"
    /\ LET m == NewId(heap)
           S0 == iomgr_msg_create(MsgState, "RELINQUISH_IO_THREAD", m_internal_msg_module_id,
                                  [cur |-> FALSE, sync |-> FALSE, fn |-> "none", arg |-> "none"])
           res == multicast_msg(S0, "all_io", m, acc, 1, 1)
           S9 == Collect(res.S)
       IN  /\ heap' = S9.heap
           /\ queue' = S9.queue
           /\ mem_errors' = S9.errs
    /\ pc' = "stop_decrement"
    /\ UNCHANGED <<m_state, m_is_spdk, m_is_spdk_inited_externally, m_yet_to_start_nreactors,
                   m_yet_to_stop_nreactors, m_worker_reactors, m_iface_list, m_drive_ifaces,
                   m_msg_handlers_count, reg_vars, m_internal_msg_module_id, reactor_vars, crashed, call,
                   main, rpc, latch, started_cnt, bdev_init>>

\* stop(): decrement_testz; on zero the state is set to stopped, else stop waits for it.
StopDecrement ==
    /\ ~crashed /\ pc = "stop_decrement"
    /\ m_yet_to_stop_nreactors' = m_yet_to_stop_nreactors - 1
    /\ IF m_yet_to_stop_nreactors - 1 = 0
       THEN m_state' = "stopped" /\ pc' = "stop_join"
       ELSE m_state' = m_state /\ pc' = "stop_wait"
    /\ UNCHANGED <<m_is_spdk, m_is_spdk_inited_externally, m_yet_to_start_nreactors,
                   m_worker_reactors, m_iface_list, m_drive_ifaces, m_msg_handlers_count, reg_vars,
                   m_internal_msg_module_id, m_global_user_timer, m_global_worker_timer,
                   reactor_vars, msg_vars, call, main, rpc, latch, started_cnt, bdev_init>>

\* stop() past wait_for_state(stopped).
StopWait ==
    /\ ~crashed /\ pc = "stop_wait" /\ m_state = "stopped"
    /\ pc' = "stop_join"
    /\ UNCHANGED <<mgr_vars, reactor_vars, msg_vars, call, main, rpc, latch, started_cnt,
                   bdev_init>>

\* The OS threads the worker slots hold.
WorkerThreads == {m_worker_reactors[i].first : i \in 1..Len(m_worker_reactors)}

\* stop() that goes on without joining the worker OS threads.
StopWithoutJoin ==
    /\ ~crashed /\ pc = "stop_join"
    /\ pc' = "stop_clear"
    /\ UNCHANGED <<mgr_vars, reactor_vars, msg_vars, call, main, rpc, latch, started_cnt,
                   bdev_init>>

\* stop(): every worker OS thread is joined; join returns once the thread function has.
StopJoin ==
    /\ ~crashed /\ pc = "stop_join"
    /\ \A w \in WorkerThreads : rpc[w] = "done"
    /\ rpc' = [r \in RIds |-> IF r \in WorkerThreads THEN "none" ELSE rpc[r]]
    /\ pc' = "stop_clear"
    /\ UNCHANGED <<mgr_vars, reactor_vars, msg_vars, call, main, latch, started_cnt, bdev_init>>

\* stop(): the slots and the interface lists are cleared, the state is asserted, stop returns.
StopClear ==
    /\ ~crashed /\ pc = "stop_clear"
    /\ m_worker_reactors' = <<>>
    /\ m_yet_to_start_nreactors' = 0
    /\ m_drive_ifaces' = <<>>
    /\ m_iface_list' = <<>>
    /\ started_cnt' = [f \in Ifaces |-> [thr \in IoThreads |-> 0]]
    /\ main' = [main EXCEPT !.ret = "stop", !.assert_ok = (m_state = "stopped"),
                            !.hist = AfterCall(main.hist, "stop")]
    /\ pc' = "idle"
    /\ UNCHANGED <<m_state, m_is_spdk, m_is_spdk_inited_externally, m_yet_to_stop_nreactors,
                   m_msg_handlers_count, reg_vars, m_internal_msg_module_id, m_global_user_timer,
                   m_global_worker_timer, reactor_vars, msg_vars, call, rpc, latch, bdev_init>>

\* ------------------------------------------------------------ specifications
Init ==
    /\ m_state = "uninitialized"
    /\ m_is_spdk = FALSE
    /\ m_is_spdk_inited_externally = FALSE
    /\ m_yet_to_start_nreactors = 0
    /\ m_yet_to_stop_nreactors = 0
    /\ m_worker_reactors = <<>>
    /\ m_iface_list = <<>>
    /\ m_drive_ifaces = <<>>
    /\ m_msg_handlers_count = 0
    /\ m_msg_handlers = [i \in 1..MaxMsgModules |-> NoHandler]
    /\ m_msg_hdlrs_mtx = 0
    /\ reg = [t \in RegThreads |-> [pc |-> "idle", k |-> 0]]
    /\ issued = <<>>
    /\ m_internal_msg_module_id = 0
    /\ m_global_user_timer = "null"
    /\ m_global_worker_timer = "null"
    /\ installed = [r \in RIds |-> FALSE]
    /\ is_io = [r \in RIds |-> FALSE]
    /\ spdk = [r \in RIds |-> FALSE]
    /\ ops = [r \in RIds |-> <<>>]
    /\ queue = [thr \in IoThreads |-> <<>>]
    /\ heap = [i \in MsgIds |-> FreeSlot]
    /\ mem_errors = {}
    /\ crashed = FALSE
    /\ call = NoCall
    /\ pc = "idle"
    /\ main = [num_threads |-> 0, is_spdk |-> FALSE, i |-> 0, iface |-> "none",
               thrown |-> FALSE, ret |-> "none", from |-> "uninitialized", hist |-> "",
               assert_ok |-> TRUE]
    /\ rpc = [r \in RIds |-> "none"]
    /\ latch = 0
    /\ started_cnt = [f \in Ifaces |-> [thr \in IoThreads |-> 0]]
    /\ bdev_init = "none"

Next ==
    \/ \E n \in 0..MaxThreads, s \in BOOLEAN : StartCall(n, s)
    \/ \E e \in BOOLEAN, eo \in BOOLEAN, lo \in BOOLEAN : StartSpdk(e, eo, lo)
    \/ StartInterfaceInit
    \/ \E acc \in SUBSET LiveThreads : AddInterface(acc)
    \/ AddInterfaceDone
    \/ SpawnThread
    \/ PushBack
    \/ \E acc \in SUBSET LiveThreads : StartSysInit(acc)
    \/ StartWaitRunning
    \/ \E acc \in SUBSET LiveThreads : StartNotify(acc)
    \/ StopCall
    \/ StopIncrement
    \/ \E acc \in SUBSET LiveThreads : StopMulticast(acc)
    \/ StopDecrement
    \/ StopWait
    \/ StopJoin
    \/ StopClear
    \/ \E r \in RIds : RunIoLoop(r)
    \/ \E r \in RIds, torn \in BOOLEAN : ReactorStart(r, torn)
    \/ \E thr \in IoThreads : ReactorHandleMsg(thr)
    \/ \E r \in RIds : ReactorStopped(r)
    \/ \E r \in RIds : ThreadExit(r)
    \/ \E u \in Users : UserDetach(u)
    \/ BdevInitDone

Spec == Init /\ [][Next]_vars

\* The thread inside start() or stop() can take its next step: it is not
\* blocked in add_interface's wait for the latch, in wait_for_state or in join
\* (and the message it is about to create can be allocated).
MainEnabled ==
    /\ ~crashed
    /\ CASE pc = "idle" -> FALSE
         [] pc \in {"add_interface", "notify", "stop_multicast"} ->
                FreeCount(heap) >= 1 + ClonesNeeded("all_io")
         [] pc = "add_interface_wait" -> latch = 0
         [] pc = "wait_sys_init" ->
                m_state = "sys_init"
                /\ ((main.is_spdk /\ ~m_is_spdk_inited_externally) => FreeCount(heap) >= 1)
         [] pc = "wait_running" -> m_state = "running"
         [] pc = "stop_wait" -> m_state = "stopped"
         [] pc = "stop_join" -> \A w \in WorkerThreads : rpc[w] = "done"
         [] OTHER -> TRUE

\* The next step of reactor thread r that is not the application's choice: a
\* spawned worker enters its loop, a created reactor starts, a reactor in its
\* loop takes a queued message, a reactor out of its loop tells the manager
\* and its thread function returns.
ReactorStep(r) ==
    \/ is_worker(r) /\ RunIoLoop(r)
    \/ \E torn \in BOOLEAN : ReactorStart(r, torn)
    \/ \E a \in 1..MaxIoThreads : ReactorHandleMsg(<<r, a>>)
    \/ ReactorStopped(r)
    \/ ThreadExit(r)

\* The life cycle with threads that keep running: every reactor thread, the
\* bdev-init completion, and the thread inside start() or stop(), which does
\* not stay for ever at a step it can take (weak fairness of its steps: each
\* of them moves pc, and every call ends at "idle").  Calling start or stop,
\* attaching a user reactor and detaching it stay the application's choice.
FairSpec ==
    /\ Spec
    /\ []<>~MainEnabled
    /\ \A r \in RIds : WF_vars(ReactorStep(r))
    /\ WF_vars(BdevInitDone)

\* ---------------------------------------------------- the message layer alone
\* A manager in state running, as start() leaves it: n worker slots (those in
\* nulls were written before push_back and stayed NULL), the workers polled
\* reactors iff sp, reactor r with nthr[r] io_threads, and the user reactor
\* absent, created but not yet an io reactor, or in its loop.
RunningConfig(n, sp, nulls, nthr, ust, usp) ==
    LET up(r) == IF is_worker(r) THEN r <= n ELSE ust # "none"
        io(r) == IF is_worker(r) THEN r <= n ELSE ust = "loop"
        drive == IF sp THEN "spdk_drive" ELSE "aio_drive"
    IN
    /\ m_state = "running"
    /\ m_is_spdk = sp
    /\ m_is_spdk_inited_externally = FALSE
    /\ m_yet_to_start_nreactors = 0
    /\ m_yet_to_stop_nreactors = Cardinality({r \in RIds : io(r)})
    /\ m_worker_reactors = [i \in 1..n |-> [first |-> i, second |-> IF i \in nulls THEN NULL ELSE i]]
    /\ m_iface_list = <<"generic", drive>>
    /\ m_drive_ifaces = <<drive>>
    /\ m_msg_handlers_count = 2
    /\ m_msg_handlers = [i \in 1..MaxMsgModules |->
                            IF i = 1 THEN InternalHandler
                            ELSE IF i = 2 THEN AppHandler(1, 1) ELSE NoHandler]
    /\ m_msg_hdlrs_mtx = 0
    /\ reg = [t \in RegThreads |-> [pc |-> "idle", k |-> IF t = 1 THEN 1 ELSE 0]]
    /\ issued = <<[handler |-> InternalHandler, id |-> 0], [handler |-> AppHandler(1, 1), id |-> 1]>>
    /\ m_internal_msg_module_id = 0
    /\ m_global_user_timer = "timer_epoll"
    /\ m_global_worker_timer = IF sp THEN "timer_spdk" ELSE "timer_epoll"
    /\ installed = [r \in RIds |-> up(r)]
    /\ is_io = [r \in RIds |-> io(r)]
    /\ spdk = [r \in RIds |-> up(r) /\ (IF is_worker(r) THEN sp ELSE usp)]
    /\ ops = [r \in RIds |-> IF io(r) THEN [a \in 1..nthr[r] |-> 0] ELSE <<>>]
    /\ queue = [thr \in IoThreads |-> <<>>]
    /\ heap = [i \in MsgIds |-> FreeSlot]
    /\ mem_errors = {}
    /\ crashed = FALSE
    /\ call = NoCall
    /\ pc = "idle"
    /\ main = [num_threads |-> n, is_spdk |-> sp, i |-> n, iface |-> drive,
               thrown |-> FALSE, ret |-> "start", from |-> "uninitialized", hist |-> "start",
               assert_ok |-> TRUE]
    /\ rpc = [r \in RIds |-> IF io(r) THEN "loop" ELSE IF up(r) THEN "created" ELSE "none"]
    /\ latch = 0
    /\ started_cnt = [f \in Ifaces |-> [thr \in IoThreads |->
                        IF io(thr[1]) /\ thr[2] <= nthr[thr[1]] /\ f \in {"generic", drive}
                        THEN 1 ELSE 0]]
    /\ bdev_init = IF sp THEN "done" ELSE "none"

MsgInit ==
    \E n \in 1..MaxThreads, sp \in BOOLEAN, usp \in BOOLEAN,
       ust \in {"none", "created", "loop"}, nthr \in [RIds -> 1..MaxIoThreads] :
        \E nulls \in SUBSET (1..n) :
            /\ \A r \in RIds : nthr[r] > 1 => (IF is_worker(r) THEN sp /\ r <= n
                                               ELSE usp /\ ust = "loop")
            /\ usp => ust # "none"
            /\ Cardinality({thr \in IoThreads :
                    thr[2] <= nthr[thr[1]]
                    /\ (IF is_worker(thr[1]) THEN thr[1] <= n ELSE ust = "loop")}) <= MaxLiveThreads
            /\ RunningConfig(n, sp, nulls, nthr, ust, usp)

MsgNext ==
    \/ \E to \in IoThreads, acc \in {{}, LiveThreads} : AppSendMsg(to, 1, acc)
    \/ \E r \in thread_regex, acc \in SUBSET LiveThreads,
          slot \in 1..MaxThreads, sel \in 1..MaxIoThreads : AppMulticastMsg(r, 1, acc, slot, sel)
    \/ \E thr \in IoThreads : ReactorHandleMsg(thr)
    \/ \E thr \in IoThreads, d \in {-1, 1} : OpsChange(thr, d)

MsgSpec == MsgInit /\ [][MsgNext]_vars

\* The life cycle together with application threads that register modules.
RegNext ==
    \/ Next
    \/ \E t \in RegThreads : RegLock(t)
    \/ \E t \in RegThreads : RegStore(t)
    \/ \E t \in RegThreads : RegReturn(t)

RegSpec == Init /\ [][RegNext]_vars

\* The reactor loops keep taking messages off their queues.
FairMsgSpec == MsgSpec /\ \A thr \in IoThreads : WF_vars(ReactorHandleMsg(thr))

\* The message layer with the application's waiting calls.
SyncNext ==
    \/ \E to \in IoThreads, acc \in {{}, LiveThreads} : AppSendMsgAndWait(to, 1, acc)
    \/ \E r \in thread_regex, acc \in SUBSET LiveThreads,
          slot \in 1..MaxThreads, sel \in 1..MaxIoThreads : AppMulticastMsgAndWait(r, 1, acc, slot, sel)
    \/ SyncWaitReturn
    \/ \E thr \in IoThreads : ReactorHandleMsg(thr)
    \/ \E thr \in IoThreads, d \in {-1, 1} : OpsChange(thr, d)

SyncSpec == MsgInit /\ [][SyncNext]_vars

\* ------------------------------------------------------------------- claims
\* The allocations of the application's last call that are still live.
CurMsgs == {i \in MsgIds : heap[i].live /\ heap[i].cur}

\* The io_threads whose queue holds message i.
QueuesHolding(i) == {thr \in IoThreads : i \in Range(queue[thr])}

\* C1: every message allocated by create or clone is freed exactly once, never
\* twice and never zero times, over any send_msg and multicast_msg calls.
C1_FreedExactlyOnce == mem_errors = {}

\* C2: multicast_msg(all_worker, m) returning k made exactly k deliveries, all
\* of them to io_threads of worker reactors, and the handler runs only there.
C2_AllWorkerCount ==
    (call.op = "multicast_msg" /\ call.r = "all_worker") =>
        /\ call.ret = Cardinality(call.delivered)
        /\ \A thr \in call.delivered : is_worker(thr[1])
        /\ \A k \in 1..Len(call.handled_on) : call.handled_on[k][1] \in call.delivered

\* The io_threads of the worker reactors the worker slots hold, and the order
\* multicast_msg scans them in: by slot, then by io_thread.
SlotThreads ==
    {thr \in LiveThreads : \E i \in 1..Len(m_worker_reactors) : m_worker_reactors[i].second = thr[1]}
ScannedBefore(a, b) == a[1] < b[1] \/ (a[1] = b[1] /\ a[2] < b[2])
OpsOf(thr) == ops[thr[1]][thr[2]]

\* The step is a call of multicast_msg(least_busy_worker, ..).
LeastBusyWorkerCall ==
    call'.n = call.n + 1 /\ call'.op = "multicast_msg" /\ call'.r = "least_busy_worker"

SendMsgOutcome ==
    call.op = "send_msg" =>
        IF call.ok
        THEN /\ call.delivered = {call.to}
             /\ \/ /\ call.handled_on = <<>>
                   /\ CurMsgs = {call.msg}
                   /\ QueuesHolding(call.msg) = {call.to}
                   /\ Len(SelectSeq(queue[call.to], LAMBDA i : i = call.msg)) = 1
                   /\ heap[call.msg].dest = call.to[2]
                \/ /\ call.handled_on = << <<call.to, get_msg_module(call.module)>> >>
                   /\ CurMsgs = {}
        ELSE /\ call.delivered = {}
             /\ call.handled_on = <<>>
             /\ CurMsgs = {}
             /\ QueuesHolding(call.msg) = {}

StopPcs == {"stop_increment", "stop_multicast", "stop_decrement", "stop_wait", "stop_join",
            "stop_clear"}
StopStep == pc' # pc /\ (pc' = "stop_increment" \/ pc \in StopPcs)
StopCalledIn == IF pc = "idle" THEN m_state ELSE main.from

\* C5: stop() called when the state is not running is a no-op: it changes
\* neither the lifecycle state, yet_to_stop_nreactors, the global timers, the
\* interface lists nor the worker slots, and sends no RELINQUISH_IO_THREAD.
C5_StopNotRunningNoOp ==
    [][(StopStep /\ StopCalledIn # "running") =>
        UNCHANGED <<m_state, m_yet_to_stop_nreactors, m_global_user_timer, m_global_worker_timer,
                    m_iface_list, m_drive_ifaces, m_worker_reactors, queue>>]_vars

\* stop(), called in state running, has returned.
StopReturned == pc = "idle" /\ main.ret = "stop" /\ main.from = "running"

\* C6: when stop() called in state running returns, the state is stopped and
\* the closing assert holds, every worker OS thread has been joined (none is
\* left in any stage of its life), and the worker slots, the drive-interface
\* list and the interface list are empty.
C6_StopLeavesStopped ==
    StopReturned =>
        /\ m_state = "stopped"
        /\ main.assert_ok
        /\ \A w \in Workers : rpc[w] = "none" /\ ~is_io[w] /\ ~installed[w]
        /\ m_worker_reactors = <<>>
        /\ m_drive_ifaces = <<>>
        /\ m_iface_list = <<>>

\* stop() has returned from a manager that ran two worker reactors.
C6_Witness == StopReturned /\ main.num_threads = MaxThreads /\ m_state = "stopped"

\* What the claim compares: the manager's own state.
ManagerView ==
    [state |-> m_state, nworkers |-> Len(m_worker_reactors), iface_list |-> m_iface_list,
     drive_ifaces |-> m_drive_ifaces, yet_to_start |-> m_yet_to_start_nreactors,
     yet_to_stop |-> m_yet_to_stop_nreactors, msg_modules |-> m_msg_handlers_count,
     internal_msg_module_id |-> m_internal_msg_module_id]

\* The manager's state when a single start(num_threads, is_spdk) has returned
\* (user reactors register with yet_to_stop as the workers do).
SingleStartView ==
    [state |-> "running", nworkers |-> main.num_threads,
     iface_list |-> <<"generic", DriveIface>>, drive_ifaces |-> <<DriveIface>>,
     yet_to_start |-> 0,
     yet_to_stop |-> main.num_threads + Cardinality({u \in Users : rpc[u] \in {"loop", "exiting"}}),
     msg_modules |-> 1, internal_msg_module_id |-> 0]

\* SingleStartView is what the first start() leaves.
FirstStartLeavesSingleStartView ==
    (pc = "idle" /\ main.ret = "start" /\ main.hist = "start") => ManagerView = SingleStartView

\* C7: the manager state after start; stop; start equals the manager state
\* after a single start with the same arguments.
C7_StartStopStartIdempotent ==
    (pc = "idle" /\ main.ret = "start" /\ main.hist = "start;stop;start")
        => ManagerView = SingleStartView

\* C8: when start(num_threads, ..) returns the state is running and exactly
\* num_threads worker slots exist; in state sys_init or running every worker
\* slot holds a non-null reactor.
C8_WorkerSlotsNonNull ==
    /\ (pc = "idle" /\ main.ret = "start") =>
            m_state = "running" /\ Len(m_worker_reactors) = main.num_threads
    /\ m_state \in {"sys_init", "running"} =>
            \A i \in 1..Len(m_worker_reactors) : m_worker_reactors[i].second # NULL

StartUpToThrow == (pc = "idle" /\ pc' = "start_spdk") \/ (pc = "start_spdk" /\ pc' = "idle")

\* C10 (amended): if spdk_env_init or spdk_thread_lib_init fails inside
\* start(is_spdk=true), start throws and has itself left the lifecycle state
\* as it was (uninitialized, or stopped after an earlier lifecycle), has
\* spawned no reactor thread and has added no interface.
C10_FailedStartFrame ==
    /\ [][StartUpToThrow => UNCHANGED <<m_state, m_worker_reactors, m_iface_list, m_drive_ifaces,
                                        rpc, installed>>]_vars
    /\ []((pc = "idle" /\ main.ret = "start_threw") =>
            /\ main.thrown
            /\ m_state \in {"uninitialized", "stopped"}
            /\ m_worker_reactors = <<>> /\ m_iface_list = <<>> /\ m_drive_ifaces = <<>>
            /\ \A w \in Workers : rpc[w] = "none")

\* start() threw when called in state stopped, and the state is still stopped.
C10_Witness ==
    pc = "idle" /\ main.ret = "start_threw" /\ main.from = "stopped" /\ m_state = "stopped"
    /\ main.hist = "start;stop;start_threw"

\* C10 as stated, for the start that follows an earlier lifecycle: the failed
\* start leaves the manager in state uninitialized.
C10_FailedStartLeavesUninitialized ==
    (pc = "idle" /\ main.ret = "start_threw" /\ main.hist = "start;stop;start_threw")
        => m_state = "uninitialized"

\* C11: the n-th registration to return got id n - 1, no two registrations got
\* the same id, and every id issued still maps to the handler it was issued
\* for, in every state, also across stop and restart.
C11_DenseModuleIds ==
    /\ \A n \in 1..Len(issued) : issued[n].id = n - 1
    /\ \A a, b \in 1..Len(issued) : a # b => issued[a].id # issued[b].id
    /\ \A n \in 1..Len(issued) : get_msg_module(issued[n].id) = issued[n].handler

\* An application thread and a start() have both registered, and the stop()
\* that followed the start has returned.
C11_Witness ==
    /\ Len(issued) = 2 /\ main.ret = "stop" /\ main.hist = "start;stop"
    /\ \E n \in 1..2 : issued[n].handler = InternalHandler
    /\ \E n \in 1..2 : issued[n].handler # InternalHandler

\* The queued sync messages of the application's waiting call: the signals
\* the latch can still receive.
PendingSignals ==
    Cardinality({i \in CurMsgs : heap[i].sync /\ QueuesHolding(i) # {}})

\* A *_and_wait call is the application's current call.
SyncCall == call.op \in {"send_msg_and_wait", "multicast_msg_and_wait"}

\* C12: a *_and_wait call waits on the latch iff the underlying call reported
\* at least one delivery; it has returned only after every recipient counted
\* in sent_to has signalled; and while it waits, the signals still to come
\* from the io_threads that received the message are enough to open the latch
\* (so that the call returns once each of them has signalled).
C12_SyncWait ==
    /\ pc = "msg_wait" => (SyncCall /\ call.ret > 0)
    /\ (SyncCall /\ ~crashed /\ pc = "idle") => Len(call.handled_on) = call.ret
    /\ (SyncCall /\ pc = "msg_wait") => latch <= PendingSignals

\* The step is a call of multicast_msg(least_busy_io, ..).
LeastBusyIoCall ==
    call'.n = call.n + 1 /\ call'.op = "multicast_msg" /\ call'.r = "least_busy_io"

\* C13: multicast_msg(least_busy_io, m), when at least one io_thread exists
\* (of a worker or of a user reactor), returns 1 and makes exactly one
\* delivery: the original message, not a clone, goes on the queue of an
\* io_thread whose outstanding_ops is minimal among all io_threads.
C13_LeastBusyIo ==
    [][(LeastBusyIoCall /\ LiveThreads # {}) =>
        /\ call'.ret = 1
        /\ \E t \in LiveThreads :
              /\ \A o \in LiveThreads : OpsOf(t) <= OpsOf(o)
              /\ call'.delivered = {t}
              /\ queue'[t] = Append(queue[t], call'.msg)
              /\ heap'[call'.msg].live]_vars

\* No worker is available to random_worker: the slot vector is empty or every
\* slot's reactor is still NULL.
NoWorkerAvailable ==
    \A i \in 1..Len(m_worker_reactors) : m_worker_reactors[i].second = NULL

\* C14: multicast_msg(random_worker, m) with no worker available returns 0 and
\* frees the message exactly once, without indexing outside the vector or
\* calling through a null reactor.
C14_RandomWorkerNoWorker ==
    (call.op = "multicast_msg" /\ call.r = "random_worker" /\ NoWorkerAvailable) =>
        /\ ~crashed
        /\ call.ret = 0
        /\ CurMsgs = {}
        /\ mem_errors = {}

\* stop() was called in state running and is still at work.
StopFromRunning == pc \in StopPcs /\ main.from = "running"

\* C15: a stop() called in state running reaches the state stopped and
\* returns (unless the process died), whatever the number of reactors and
\* whenever user reactors attach or detach; and the state is not stopped while
\* stop() has yet to multicast RELINQUISH_IO_THREAD and to remove its own +1.
C15_StopTerminates ==
    /\ [](StopFromRunning /\ pc \in {"stop_increment", "stop_multicast", "stop_decrement"}
            => m_state # "stopped")
    /\ StopFromRunning ~> (crashed \/ (pc = "idle" /\ main.ret = "stop" /\ m_state = "stopped"))

\* The step is start() taking num_threads as the number of reactors to wait for.
StartSetsCount ==
    pc = "idle" /\ pc' \in {"start_spdk", "interface_init"}
    /\ m_yet_to_start_nreactors' = main'.num_threads

\* The step is stop() clearing the count after the state has become stopped.
StopResetsCount == pc = "stop_clear" /\ m_yet_to_start_nreactors' = 0

\* C16: yet_to_start is set to num_threads by start(), from then on only
\* decreases, and reaches zero once, by the reactor_started of the last
\* worker, which is the only step that sets sys_init; yet_to_stop goes from
\* non-zero to zero only while stop() is at work (state stopping), also when
\* user reactors attach and detach on their own.
C16_StartStopCounters ==
    [][/\ m_yet_to_start_nreactors' # m_yet_to_start_nreactors =>
            \/ StartSetsCount
            \/ StopResetsCount /\ m_yet_to_start_nreactors = 0
            \/ /\ m_yet_to_start_nreactors' = m_yet_to_start_nreactors - 1
               /\ m_yet_to_start_nreactors' >= 0
               /\ m_yet_to_start_nreactors' = 0 => m_state' = "sys_init"
       /\ (m_state' = "sys_init" /\ m_state # "sys_init") =>
            (m_yet_to_start_nreactors = 1 /\ m_yet_to_start_nreactors' = 0)
       /\ (m_yet_to_stop_nreactors # 0 /\ m_yet_to_stop_nreactors' = 0) =>
            (m_state = "stopping" /\ pc \in StopPcs)]_vars

\* The position of a state in the order of the life cycle.
StateRank(st) ==
    CASE st = "uninitialized" -> 0
      [] st = "interface_init" -> 1
      [] st = "reactor_init" -> 2
      [] st = "sys_init" -> 3
      [] st = "running" -> 4
      [] st = "stopping" -> 5
      [] st = "stopped" -> 6

\* C17: the state only moves forward in the order uninitialized,
\* interface_init, reactor_init, sys_init, running, stopping, stopped; the one
\* move backward is stopped -> interface_init, made by a new start().
C17_StateMovesForward ==
    [][m_state' # m_state =>
        \/ StateRank(m_state') > StateRank(m_state)
        \/ m_state = "stopped" /\ m_state' = "interface_init" /\ pc = "interface_init"]_vars

\* C18: the state becomes stopped only from stopping; a reactor that calls
\* reactor_stopped while the manager is uninitialized, initializing or running
\* does not set it.
C18_StoppedOnlyFromStopping ==
    [][(m_state' = "stopped" /\ m_state # "stopped") => m_state = "stopping"]_vars

\* The step is worker r running reactor_started.
WorkerRegisters(r) == rpc[r] = "created" /\ rpc'[r] = "loop"

\* C19: the reactor_started of the worker of slot i stores into
\* m_worker_reactors[i] only after start() has appended slot i, and start()
\* does not append to the vector while a worker that has yet to store into its
\* slot is running.
C19_SlotWrittenAfterAppend ==
    [][/\ \A r \in Workers : WorkerRegisters(r) => r <= Len(m_worker_reactors)
       /\ Len(m_worker_reactors') > Len(m_worker_reactors) =>
            \A r \in Workers : rpc[r] \notin {"spawned", "created"}]_vars

\* start() was called in state uninitialized or stopped and is still at work.
StartPcs == {"start_spdk", "interface_init", "add_interface", "add_interface_wait", "spawn",
             "push_back", "wait_sys_init", "wait_running", "notify"}
StartAtWork == pc \in StartPcs /\ main.from \in {"uninitialized", "stopped"}

\* C20: a start(num_threads, ..) called in state uninitialized or stopped
\* returns with the state running, for every num_threads >= 0 (unless it
\* threw or the process died), given that the spawned workers call
\* reactor_started and the bdev-init callback fires.
C20_StartTerminates ==
    StartAtWork ~> (crashed \/ main.ret = "start_threw"
                    \/ (pc = "idle" /\ main.ret = "start" /\ m_state = "running"))

====
